---- MODULE Spec2Model ----
(***************************************************************************)
(* free-storage (src/src/lib.rs): files stored as chunked release assets.  *)
(*                                                                         *)
(* One client runs upload_file and get_file calls against a remote release *)
(* store.  Every network call is one step whose response is chosen by the  *)
(* remote side; the spawned chunk tasks complete in any order.             *)
(*                                                                         *)
(* Text is modelled as it is on the wire: a String is a sequence of code   *)
(* points, bytes are numbers 0..255, a URL string is a sequence of tokens  *)
(* (literal pieces, the hash, a "-chunk{i}" piece) that is parsed into     *)
(* host / path / query and serialised back.  The hash is modelled as the   *)
(* hashed bytes themselves (a collision-free digest).                      *)
(*                                                                         *)
(* The remote side: a request fails in transport, is answered with an      *)
(* error status, or is served.  A release is found only when it exists and *)
(* created only in a repository with commits and no release; an asset is   *)
(* stored only under a name not yet taken; the listing holds every asset;  *)
(* a download is addressed by the path of its URL, the query ignored.      *)
(* A behaviour is about one file (chosen at the start), uploaded up to     *)
(* MaxCalls times and downloaded after a successful upload.                *)
(***************************************************************************)
EXTENDS Integers, Sequences, FiniteSets, TLC

\* ---------------------------------------------------------------- bounds
MaxNameLen == 1
MaxDataLen == 2
MaxCalls == 2

\* chunks(100_000_000): the chunk size, scaled down so that payloads of a
\* few bytes span several chunks.
ChunkSize == 3

NameChars == {10, 97, 233}     \* '\n', 'a', U+00E9
DataBytes == {10, 97}          \* '\n', 'a'
ErrBody == <<69>>              \* body of an HTTP error response, "E"

SeqsUpTo(S, n) == UNION {[1..k -> S] : k \in 0..n}

Names == SeqsUpTo(NameChars, MaxNameLen)
Datas == SeqsUpTo(DataBytes, MaxDataLen)

Repos ==
  { <<"n", "o", "t", "a", "s", "l", "a", "s", "h">>,
    <<"a", "/", "b", "/", "c">>,
    <<"o", "w", "n", "e", "r", "/", "n", "a", "m", "e">>,
    <<"h", "t", "t", "p", "s", ":", "/", "/", "g", "i", "t", "h", "u", "b",
      ".", "c", "o", "m", "/", "o", "w", "n", "e", "r", "/", "n", "a", "m", "e">> }

\* ------------------------------------------------------- strings and bytes
RECURSIVE Count(_, _)
Count(s, c) ==
  IF s = <<>> THEN 0 ELSE (IF Head(s) = c THEN 1 ELSE 0) + Count(Tail(s), c)

\* str::split('/').count()
SplitCount(s) == Count(s, "/") + 1

\* str::contains
Contains(s, pat) ==
  \E k \in 0..(Len(s) - Len(pat)) : SubSeq(s, k + 1, k + Len(pat)) = pat

GithubCom == <<"g", "i", "t", "h", "u", "b", ".", "c", "o", "m">>

\* a faulty variant of the test below: the two tests joined by "or"
RepoInvalidOr(r) == SplitCount(r) # 2 \/ ~Contains(r, GithubCom)

\* lib.rs:83
RepoInvalid(r) == SplitCount(r) # 2 /\ ~Contains(r, GithubCom)

\* UTF-8 of one code point below U+0800
Utf8Char(c) == IF c < 128 THEN <<c>> ELSE <<192 + (c \div 64), 128 + (c % 64)>>

RECURSIVE Utf8(_)
Utf8(str) == IF str = <<>> THEN <<>> ELSE Utf8Char(Head(str)) \o Utf8(Tail(str))

\* String::len(): the length in bytes
StrLen(str) == Len(Utf8(str))

\* prepend_slice(vec, slice): vec becomes slice followed by vec
prepend_slice(vec, slice) == slice \o vec

\* format!("{file_name}\n").as_bytes() put in front of file_data
Prefixed(name, bytes) == prepend_slice(bytes, Utf8(name \o <<10>>))

\* sha256::digest_bytes, collision-free
Sha256(bytes) == bytes

Min(a, b) == IF a < b THEN a ELSE b

\* a faulty variant of the count below: one more than the whole chunks
ChunksLenFloor(bytes) == (Len(bytes) \div ChunkSize) + 1

\* slice::chunks(n).len()
ChunksLen(bytes) == (Len(bytes) + ChunkSize - 1) \div ChunkSize

\* a faulty variant of the chunk below: the chunk's last byte is left out
ChunkAtShort(bytes, i) ==
  SubSeq(bytes, i * ChunkSize + 1, Min((i + 1) * ChunkSize, Len(bytes)) - 1)

\* the i-th (0-based) item of slice::chunks
ChunkAt(bytes, i) ==
  SubSeq(bytes, i * ChunkSize + 1, Min((i + 1) * ChunkSize, Len(bytes)))

\* ------------------------------------------------------------------ URLs
Lit(s) == [k |-> s, h |-> <<>>, i |-> 0]
HashTok(h) == [k |-> "hash", h |-> h, i |-> 0]
ChunkTok(i) == [k |-> "-chunk", h |-> <<>>, i |-> i]

\* format!("{hash}-chunk{i}")
AssetName(h, i) == <<HashTok(h), ChunkTok(i)>>

Hosts == {"https://api.github.com", "https://uploads.github.com", "https://github.com"}

NoUrl == [host |-> "", path |-> <<>>, hasQuery |-> FALSE, query |-> <<>>]

\* position of the first "?" piece, 0 when there is none
RECURSIVE QMark(_, _)
QMark(s, k) ==
  IF k > Len(s) THEN 0 ELSE IF s[k] = Lit("?") THEN k ELSE QMark(s, k + 1)

\* the path percent-encodes braces
PercentEncode(t) ==
  IF t = Lit("{") THEN Lit("%7B") ELSE IF t = Lit("}") THEN Lit("%7D") ELSE t

UrlValid(s) == s # <<>> /\ s[1].k \in Hosts

\* str::parse::<Url>() of a valid URL string
UrlParse(s) ==
  LET rest == Tail(s)
      q == QMark(rest, 1)
      p == IF q = 0 THEN rest ELSE SubSeq(rest, 1, q - 1)
  IN [host |-> s[1].k,
      path |-> [n \in 1..Len(p) |-> PercentEncode(p[n])],
      hasQuery |-> q # 0,
      query |-> IF q = 0 THEN <<>> ELSE SubSeq(rest, q + 1, Len(rest))]

\* Url as a string (Display)
UrlString(u) ==
  <<Lit(u.host)>> \o u.path \o (IF u.hasQuery THEN <<Lit("?")>> \o u.query ELSE <<>>)

\* lib.rs:294 parse_url
parse_url(s) ==
  IF ~UrlValid(s) THEN [ok |-> FALSE, url |-> NoUrl]
  ELSE LET u == [UrlParse(s) EXCEPT !.hasQuery = TRUE, !.query = <<>>]
           n == Len(u.path)
       IN [ok |-> TRUE,
           url |-> IF n > 0 /\ u.path[n] = Lit("%7B")
                   THEN [u EXCEPT !.path = SubSeq(u.path, 1, n - 1)]
                   ELSE u]

\* what the remote side sends
AssetsUrlRaw ==
  <<Lit("https://api.github.com"), Lit("/repos/o/r/releases/1/assets")>>
UploadUrlRaw ==
  <<Lit("https://uploads.github.com"), Lit("/repos/o/r/releases/1/assets"),
    Lit("{"), Lit("?"), Lit("name,label}")>>
BadUrlRaw == <<Lit("not a url")>>
BrowserDownloadUrl(name) ==
  <<Lit("https://github.com"), Lit("/o/r/releases/download/files/")>> \o name

\* the asset a download URL string addresses: the remote side goes by the
\* path and ignores the query
AddressedAsset(s) == Tail(UrlParse(s).path)

\* ------------------------------------------------------ release responses
Some(s) == [some |-> TRUE, v |-> s]
None == [some |-> FALSE, v |-> <<>>]

\* the body of a release response that did arrive and decode
ReleaseResponse(resp) ==
  IF resp = "ok" THEN [upload_url |-> Some(UploadUrlRaw), assets_url |-> Some(AssetsUrlRaw)]
  ELSE IF resp = "bad_url" THEN [upload_url |-> Some(UploadUrlRaw), assets_url |-> Some(BadUrlRaw)]
  ELSE [upload_url |-> None, assets_url |-> None]

NoUrls == <<NoUrl, NoUrl>>

\* lib.rs:201 the get_release closure, given the response to its request
get_release(resp) ==
  IF resp = "err" THEN [kind |-> "Err", urls |-> NoUrls]
  ELSE LET release == ReleaseResponse(resp)
           a == parse_url(release.assets_url.v)
           u == parse_url(release.upload_url.v)
       IN IF ~(release.assets_url.some /\ release.upload_url.some)
          THEN [kind |-> "None", urls |-> NoUrls]
          ELSE IF ~a.ok \/ ~u.ok
          THEN [kind |-> "panic", urls |-> NoUrls]
          ELSE [kind |-> "Some", urls |-> <<a.url, u.url>>]

\* lib.rs:221 the create_release closure, given the response to its request
create_release(resp) ==
  IF resp = "err" THEN [kind |-> "Err", urls |-> NoUrls]
  ELSE LET release == ReleaseResponse(resp)
           a == parse_url(release.assets_url.v)
           u == parse_url(release.upload_url.v)
       IN IF ~(release.assets_url.some /\ release.upload_url.some)
          THEN [kind |-> "None", urls |-> NoUrls]
          ELSE IF ~a.ok \/ ~u.ok
          THEN [kind |-> "panic", urls |-> NoUrls]
          ELSE [kind |-> "Some", urls |-> <<a.url, u.url>>]

\* --------------------------------------------------------------- get_file
RECURSIVE TakeWhileNotNewline(_)
TakeWhileNotNewline(bytes) ==
  IF bytes = <<>> \/ Head(bytes) = 10 THEN <<>>
  ELSE <<Head(bytes)>> \o TakeWhileNotNewline(Tail(bytes))

\* Iterator::skip(n).collect()
Skip(bytes, n) == SubSeq(bytes, n + 1, Len(bytes))

\* a variant of the split below: without a newline, no name and the whole
\* payload
SplitNameOrWhole(bytes) ==
  LET name == TakeWhileNotNewline(bytes)
  IN IF Len(name) = Len(bytes) THEN [name |-> <<>>, bytes |-> bytes]
     ELSE [name |-> name, bytes |-> Skip(bytes, StrLen(name) + 1)]

\* lib.rs:178-186: every byte read as one char up to the first newline is the
\* name; the content skips the name's length as a String, plus one
SplitName(bytes) ==
  LET name == TakeWhileNotNewline(bytes)
  IN [name |-> name, bytes |-> Skip(bytes, StrLen(name) + 1)]

\* a faulty variant of the order below: the handles awaited in the order the
\* tasks completed
NextAwaitedByCompletion(awaited, order) ==
  IF Len(order) > awaited THEN order[awaited + 1] ELSE awaited

\* lib.rs:172 for thread in threads: the handles are awaited in index order
NextAwaited(awaited, order) == awaited

\* ------------------------------------------------------------ upload_file
\* a faulty variant of the check below: it looks for chunk 1
DedupHitChunk1(assets, hash) == \E a \in assets : a.name = AssetName(hash, 1)

\* lib.rs:113-114
DedupHit(assets, hash) == \E a \in assets : a.name = AssetName(hash, 0)

\* GET assets: the listing of a store
Listing(st) ==
  {[name |-> a.name, browser_download_url |-> BrowserDownloadUrl(a.name)] : a \in st}

\* a MaybeUninit slot read by assume_init: its value when written, anything
\* when not
GarbageUrls == {NoUrl, parse_url(AssetsUrlRaw).url}
AssumeInit(s) == IF s.init THEN {s.url} ELSE GarbageUrls

NoSlot == [init |-> FALSE, url |-> NoUrl, writes |-> 0]
NoResult == [kind |-> "none", err |-> "", asset_url |-> NoUrl, chunks |-> 0]
Ok(url, n) == [kind |-> "ok", err |-> "", asset_url |-> url, chunks |-> n]
Err(e) == [kind |-> "err", err |-> e, asset_url |-> NoUrl, chunks |-> 0]
Panic == [kind |-> "panic", err |-> "", asset_url |-> NoUrl, chunks |-> 0]

NoGResult == [kind |-> "none", err |-> "", bytes |-> <<>>, name |-> <<>>]

VARIABLES
  repoHasCommits, releaseExists, store,     \* the remote repository
  pc, calls,
  file_name, file_data, repo,               \* upload_file's arguments
  rlog,                                     \* create_or_get_release's requests
  uploads_url, assets_url, data,
  threads, joined, slot, result,
  listed, posts,                            \* the requests of upload_file
  store0, uploaded,
  dthreads, dorder, djoined, file, gresult  \* get_file

remote == <<repoHasCommits, releaseExists, store>>
args == <<file_name, file_data, repo>>
getvars == <<dthreads, dorder, djoined, file, gresult>>
hist == <<calls, store0, uploaded>>
sent == <<listed, posts>>
vars ==
  <<repoHasCommits, releaseExists, store, pc, calls, file_name, file_data, repo,
    rlog, uploads_url, assets_url, data, threads, joined, slot, result,
    listed, posts, store0, uploaded, dthreads, dorder, djoined, file, gresult>>

Init ==
  /\ repoHasCommits \in BOOLEAN
  /\ releaseExists \in BOOLEAN
  /\ releaseExists => repoHasCommits
  /\ store = {}
  /\ pc = "idle"
  /\ calls = 0
  /\ file_name \in Names /\ file_data \in Datas /\ repo = <<>>
  /\ rlog = <<>>
  /\ uploads_url = NoUrl /\ assets_url = NoUrl /\ data = <<>>
  /\ threads = <<>> /\ joined = 0 /\ slot = NoSlot /\ result = NoResult
  /\ listed = NoUrl /\ posts = <<>>
  /\ store0 = {} /\ uploaded = {}
  /\ dthreads = <<>> /\ dorder = <<>> /\ djoined = 0 /\ file = <<>>
  /\ gresult = NoGResult

\* lib.rs:76-90 upload_file is called on the client's file: the repo test,
\* then the first request
StartUpload(r) ==
  /\ pc \in {"idle", "up_done", "get_done"}
  /\ calls < MaxCalls
  /\ calls' = calls + 1
  /\ repo' = r
  /\ store0' = store
  /\ uploaded' = IF result.kind = "ok"
                 THEN uploaded \cup {[name |-> file_name, data |-> file_data,
                                      chunks |-> result.chunks]}
                 ELSE uploaded
  /\ rlog' = <<>>
  /\ uploads_url' = NoUrl /\ assets_url' = NoUrl /\ data' = <<>>
  /\ threads' = <<>> /\ joined' = 0 /\ slot' = NoSlot
  /\ listed' = NoUrl /\ posts' = <<>>
  /\ dthreads' = <<>> /\ dorder' = <<>> /\ djoined' = 0 /\ file' = <<>>
  /\ gresult' = NoGResult
  /\ IF RepoInvalid(r)
     THEN result' = Err("InvalidRepoFormat") /\ pc' = "up_done"
     ELSE result' = NoResult /\ pc' = "get_release"
  /\ UNCHANGED <<remote, file_name, file_data>>

LookupResponses ==
  {"err", "missing"} \cup (IF releaseExists THEN {"ok", "bad_url"} ELSE {})
CreateResponses ==
  {"err", "missing"}
    \cup (IF repoHasCommits /\ ~releaseExists THEN {"ok", "bad_url"} ELSE {})

\* a faulty variant of the step below: creation is attempted whatever the
\* lookup returned
AfterLookupAlwaysCreate(kind) ==
  IF kind = "panic" THEN "up_done" ELSE "create_release"

\* lib.rs:245-247 if let Ok(Some(urls)) = get_release().await { Ok(urls) }
\* else if ... create_release(); a panic ends the call
AfterLookup(kind) ==
  IF kind = "Some" THEN "list_assets"
  ELSE IF kind = "panic" THEN "up_done"
  ELSE "create_release"

\* lib.rs:245 the first get_release().await
GetRelease(resp) ==
  /\ pc = "get_release"
  /\ LET r == get_release(resp)
     IN /\ rlog' = Append(rlog, [req |-> "lookup", resp |-> resp])
        /\ pc' = AfterLookup(r.kind)
        /\ IF r.kind = "Some"
           THEN /\ uploads_url' = r.urls[1] /\ assets_url' = r.urls[2]
                /\ result' = result
           ELSE IF r.kind = "panic"
           THEN /\ result' = Panic
                /\ UNCHANGED <<uploads_url, assets_url>>
           ELSE UNCHANGED <<uploads_url, assets_url, result>>
  /\ UNCHANGED <<remote, args, hist, getvars, data, threads, joined, slot, sent>>

\* lib.rs:247 create_release().await
CreateRelease(resp) ==
  /\ pc = "create_release"
  /\ releaseExists' = (releaseExists \/ resp \in {"ok", "bad_url"})
  /\ LET r == create_release(resp)
     IN /\ rlog' = Append(rlog, [req |-> "create", resp |-> resp])
        /\ IF r.kind = "Some"
           THEN /\ uploads_url' = r.urls[1] /\ assets_url' = r.urls[2]
                /\ pc' = "list_assets" /\ result' = result
           ELSE IF r.kind = "panic"
           THEN /\ result' = Panic /\ pc' = "up_done"
                /\ UNCHANGED <<uploads_url, assets_url>>
           ELSE /\ pc' = "bootstrap"
                /\ UNCHANGED <<uploads_url, assets_url, result>>
  /\ UNCHANGED <<repoHasCommits, store, args, hist, getvars, data, threads,
                 joined, slot, sent>>

\* lib.rs:251-262 the commit to the sentinel path; any response at all goes on
Bootstrap(resp) ==
  /\ pc = "bootstrap"
  /\ rlog' = Append(rlog, [req |-> "bootstrap", resp |-> resp])
  /\ repoHasCommits' = (repoHasCommits \/ resp = "committed")
  /\ IF resp = "err"
     THEN result' = Err("Reqwest") /\ pc' = "up_done"
     ELSE result' = result /\ pc' = "final_lookup"
  /\ UNCHANGED <<releaseExists, store, args, hist, getvars, uploads_url,
                 assets_url, data, threads, joined, slot, sent>>

\* lib.rs:264 Ok(get_release().await?.unwrap())
FinalLookup(resp) ==
  /\ pc = "final_lookup"
  /\ LET r == get_release(resp)
     IN /\ rlog' = Append(rlog, [req |-> "lookup", resp |-> resp])
        /\ IF r.kind = "Some"
           THEN /\ uploads_url' = r.urls[1] /\ assets_url' = r.urls[2]
                /\ pc' = "list_assets" /\ result' = result
           ELSE /\ result' = (IF r.kind = "Err" THEN Err("Reqwest") ELSE Panic)
                /\ pc' = "up_done"
                /\ UNCHANGED <<uploads_url, assets_url>>
  /\ UNCHANGED <<remote, args, hist, getvars, data, threads, joined, slot, sent>>

\* lib.rs:125-126 the upload URL with the query name={hash}-chunk{i}
PostUrl(base, hash, i) ==
  [base EXCEPT !.hasQuery = TRUE, !.query = <<Lit("name=")>> \o AssetName(hash, i)]

\* a faulty variant of the spawning below: only chunk 0's task is started,
\* the others wait for it
SpawnedFirstOnly(n) == [i \in 1..n |-> IF i = 1 THEN "running" ELSE "unspawned"]

\* lib.rs:124-139 tokio::spawn for every chunk, nothing awaited in between
Spawned(n) == [i \in 1..n |-> "running"]

\* the remote side: the asset a POST names in its query
PostedName(post) == Tail(post.url.query)

\* the remote side: the download URL in the response to a stored POST
ResponseUrl(post) == BrowserDownloadUrl(PostedName(post))

\* a faulty variant of the test below: every chunk's response is decoded
\* into the slot
DecodedAlways(chunk) == TRUE

\* lib.rs:144 if chunk == 0
Decoded(chunk) == chunk = 0

\* lib.rs:95-139 the name is put in front, the data hashed and split, the
\* assets listed; on a hit the locator is returned, on a miss every chunk's
\* task is spawned
ListAssets(resp) ==
  /\ pc = "list_assets"
  /\ LET d == Prefixed(file_name, file_data)
         hash == Sha256(d)
         chunks_len == ChunksLen(d)
         assets == Listing(store)
         hit == parse_url(BrowserDownloadUrl(AssetName(hash, 0)))
     IN /\ data' = d
        /\ rlog' = <<>> /\ repo' = <<>>
        /\ listed' = assets_url
        /\ IF resp = "err"
           THEN /\ result' = Err("Reqwest") /\ pc' = "up_done"
                /\ UNCHANGED <<threads, posts>>
           ELSE IF DedupHit(assets, hash)
           THEN /\ result' = (IF hit.ok THEN Ok(hit.url, chunks_len) ELSE Err("Url"))
                /\ pc' = "up_done"
                /\ UNCHANGED <<threads, posts>>
           ELSE IF chunks_len = 0
           THEN /\ \E u \in AssumeInit(slot) : result' = Ok(u, chunks_len)
                /\ pc' = "up_done"
                /\ UNCHANGED <<threads, posts>>
           ELSE /\ posts' = [i \in 1..chunks_len |->
                              [url |-> PostUrl(uploads_url, hash, i - 1),
                               body |-> ChunkAt(d, i - 1)]]
                /\ threads' = Spawned(chunks_len)
                /\ pc' = "uploading"
                /\ result' = result
  /\ UNCHANGED <<remote, file_name, file_data, hist, getvars, uploads_url,
                 assets_url, joined, slot>>

\* lib.rs:130-138 the task of chunk i-1 ends: the remote side stored the chunk
\* under its name ("ok"), answered with an error status ("http_err"), or the
\* request failed ("transport_err").  A task outlives a call that has
\* already returned an error.
UploadChunkDone(i, out) ==
  /\ pc \in {"uploading", "up_done"}
  /\ i \in 1..Len(threads)
  /\ threads[i] = "running"
  /\ LET name == PostedName(posts[i])
     IN /\ out = "ok" => \A a \in store : a.name # name
        /\ store' = IF out = "ok"
                    THEN store \cup {[name |-> name, body |-> posts[i].body]}
                    ELSE store
  /\ threads' = [threads EXCEPT ![i] = out]
  /\ UNCHANGED <<repoHasCommits, releaseExists, pc, args, hist, getvars, rlog,
                 uploads_url, assets_url, data, joined, slot, result, sent>>

\* lib.rs:142-153 the next handle is awaited; chunk 0's response is decoded
\* into the slot; after the last handle the locator is returned
JoinUpload ==
  /\ pc = "uploading"
  /\ joined < Len(threads)
  /\ threads[joined + 1] # "running"
  /\ LET ret == threads[joined + 1]
         chunk == joined
         url == parse_url(ResponseUrl(posts[joined + 1]))
         failed == IF ret = "transport_err" THEN "Reqwest"
                   ELSE IF Decoded(chunk) /\ ret = "http_err" THEN "Reqwest"
                   ELSE IF Decoded(chunk) /\ ~url.ok THEN "Url"
                   ELSE ""
         written == IF Decoded(chunk) /\ failed = ""
                    THEN [init |-> TRUE, url |-> url.url, writes |-> slot.writes + 1]
                    ELSE slot
     IN /\ slot' = written
        /\ IF failed # ""
           THEN /\ result' = Err(failed) /\ pc' = "up_done" /\ joined' = joined
           ELSE IF joined + 1 = Len(threads)
           THEN /\ \E u \in AssumeInit(written) : result' = Ok(u, Len(threads))
                /\ pc' = "up_done" /\ joined' = joined + 1
           ELSE /\ joined' = joined + 1
                /\ UNCHANGED <<pc, result>>
  /\ UNCHANGED <<remote, args, hist, getvars, rlog, uploads_url, assets_url,
                 data, threads, sent>>

\* ---------------------------------------------------------------- get_file
\* lib.rs:167 format!("{}-chunk{i}", self.asset_url)
ChunkUrl(asset_url, i) == UrlString(asset_url) \o <<ChunkTok(i)>>

\* lib.rs:159-170 get_file on the locator just returned: a task per chunk
StartGet ==
  /\ pc = "up_done"
  /\ result.kind = "ok"
  /\ dthreads' = [i \in 1..result.chunks |-> [st |-> "running", body |-> <<>>]]
  /\ dorder' = <<>> /\ djoined' = 0 /\ file' = <<>>
  /\ IF result.chunks = 0
     THEN gresult' = [kind |-> "ok", err |-> "", bytes |-> <<>>, name |-> <<>>]
          /\ pc' = "get_done"
     ELSE gresult' = NoGResult /\ pc' = "fetching"
  /\ threads' = <<>> /\ joined' = 0 /\ slot' = NoSlot
  /\ posts' = <<>>
  /\ UNCHANGED <<remote, args, hist, rlog, uploads_url, assets_url, data,
                 result, listed>>

\* lib.rs:169 the task of chunk i-1 ends: the body of the asset its URL
\* addresses ("ok"), an error status with its own body ("http_err"), or a
\* failed request ("transport_err")
FetchDone(i, out) ==
  /\ pc = "fetching"
  /\ i \in 1..Len(dthreads)
  /\ dthreads[i].st = "running"
  /\ LET addressed == AddressedAsset(ChunkUrl(result.asset_url, i - 1))
         found == {a \in store : a.name = addressed}
     IN /\ out = "ok" => found # {}
        /\ \E body \in (IF out = "ok" THEN {a.body : a \in found}
                        ELSE IF out = "http_err" THEN {ErrBody} ELSE {<<>>}) :
             dthreads' = [dthreads EXCEPT ![i] = [st |-> out, body |-> body]]
  /\ dorder' = Append(dorder, i - 1)
  /\ UNCHANGED <<remote, pc, args, hist, rlog, uploads_url, assets_url, data,
                 threads, joined, slot, result, sent, djoined, file, gresult>>

\* lib.rs:172-188 the next handle is awaited and its body appended; after the
\* last one the name is split off
JoinGet ==
  /\ pc = "fetching"
  /\ djoined < Len(dthreads)
  /\ LET k == NextAwaited(djoined, dorder) + 1
         res == dthreads[k]
         whole == file \o res.body
         split == SplitName(whole)
     IN /\ res.st # "running"
        /\ IF res.st = "transport_err"
           THEN /\ gresult' = [kind |-> "err", err |-> "Reqwest", bytes |-> <<>>,
                               name |-> <<>>]
                /\ pc' = "get_done"
                /\ UNCHANGED <<djoined, file>>
           ELSE /\ file' = whole
                /\ djoined' = djoined + 1
                /\ IF djoined + 1 = Len(dthreads)
                   THEN /\ gresult' = [kind |-> "ok", err |-> "",
                                       bytes |-> split.bytes, name |-> split.name]
                        /\ pc' = "get_done"
                   ELSE UNCHANGED <<gresult, pc>>
  /\ UNCHANGED <<remote, args, hist, rlog, uploads_url, assets_url, data,
                 threads, joined, slot, result, sent, dthreads, dorder>>

Outcomes == {"ok", "http_err", "transport_err"}

Next ==
  \/ \E r \in Repos : StartUpload(r)
  \/ \E resp \in LookupResponses : GetRelease(resp)
  \/ \E resp \in CreateResponses : CreateRelease(resp)
  \/ \E resp \in {"err", "committed", "rejected"} : Bootstrap(resp)
  \/ \E resp \in LookupResponses : FinalLookup(resp)
  \/ \E resp \in {"err", "ok"} : ListAssets(resp)
  \/ \E i \in 1..Len(threads), out \in Outcomes : UploadChunkDone(i, out)
  \/ JoinUpload
  \/ StartGet
  \/ \E i \in 1..Len(dthreads), out \in Outcomes : FetchDone(i, out)
  \/ JoinGet

Spec == Init /\ [][Next]_vars

\* ================================================================ claims
Indices(sq) == 1..Len(sq)

NoNewline(bytes) == \A n \in Indices(bytes) : bytes[n] # 10

\* the least n with n * b >= a
CeilDiv(a, b) == CHOOSE n \in 0..a : n * b >= a /\ (n = 0 \/ (n - 1) * b < a)

RECURSIVE ConcatBodies(_, _)
ConcatBodies(ts, n) ==
  IF n = 0 THEN <<>> ELSE ConcatBodies(ts, n - 1) \o ts[n].body

\* the call began against a store with no asset of the file's hash
FreshStore == \A a \in store0 : a.name[1].h # Sha256(data)

\* every chunk of the file is stored under its name
AllStored ==
  \A i \in 0..(ChunksLen(data) - 1) :
    [name |-> AssetName(Sha256(data), i), body |-> ChunkAt(data, i)] \in store

AllFetched == \A n \in Indices(dthreads) : dthreads[n].st = "ok"

\* C1: a file uploaded to a store without its hash, every chunk stored and
\* every fetch answered with an asset, downloads as the same bytes and name
\* (a name holding a newline, which the wire format cannot carry, set aside).
RoundTrip ==
  (pc = "get_done" /\ FreshStore /\ AllStored /\ AllFetched /\ NoNewline(file_name))
    => (gresult.kind = "ok" /\ gresult.bytes = file_data /\ gresult.name = file_name)

AlreadyUploaded ==
  \E u \in uploaded : u.name = file_name /\ u.data = file_data

\* C2: in a call for a file that an earlier call uploaded successfully no
\* chunk task is spawned and the assets stay as they were, and a locator it
\* returns has the earlier locator's chunk count.
DedupIdempotent ==
  AlreadyUploaded =>
    /\ threads = <<>>
    /\ store = store0
    /\ (pc = "up_done" /\ result.kind = "ok")
         => \A u \in uploaded :
              (u.name = file_name /\ u.data = file_data) => result.chunks = u.chunks

DedupIdempotentWitness ==
  pc = "up_done" /\ AlreadyUploaded /\ result.kind = "ok" /\ result.chunks = 2

\* C3: whatever the order the fetches complete in, the bytes put together
\* are the bodies of the awaited fetches in ascending chunk index.
ReassemblyInIndexOrder ==
  pc \in {"fetching", "get_done"} => file = ConcatBodies(dthreads, djoined)

ReassemblyInIndexOrderWitness ==
  /\ pc = "get_done" /\ gresult.kind = "ok"
  /\ dorder = <<1, 0>>
  /\ dthreads[1].body # dthreads[2].body

\* C4: an upload in which some chunk's request failed or was answered with
\* an error status returns no locator.
UploadAllOrFail ==
  (pc = "up_done" /\ \E n \in Indices(threads) : threads[n] \in {"http_err", "transport_err"})
    => result.kind # "ok"

\* C5: a download in which some chunk's fetch failed or was answered with an
\* error status returns an error.
DownloadAllOrFail ==
  (pc = "get_done" /\ \E n \in Indices(dthreads) : dthreads[n].st \in {"http_err", "transport_err"})
    => gresult.kind = "err"

ResolverEnded == pc \in {"list_assets", "up_done"}

\* C6: when the lookup and the creation have both failed and the commit
\* request was answered, the resolver ends after one commit attempt and one
\* more lookup, and with that lookup's error when it gave no endpoints.
BootstrapThenLookupError ==
  (/\ ResolverEnded
   /\ Len(rlog) >= 3
   /\ rlog[2].req = "create" /\ rlog[2].resp \in {"err", "missing"}
   /\ rlog[3].resp # "err")
    => /\ Cardinality({n \in Indices(rlog) : rlog[n].req = "bootstrap"}) = 1
       /\ Len(rlog) = 4 /\ rlog[4].req = "lookup"
       /\ rlog[4].resp \in {"err", "missing"} => result = Err("Reqwest")

ExactlyOneSlash(r) == Count(r, "/") = 1
LooksLikeHostUrl(r) == Contains(r, GithubCom)
NoRequestIssued == rlog = <<>> /\ data = <<>> /\ threads = <<>>
OwnerName == <<"o", "w", "n", "e", "r", "/", "n", "a", "m", "e">>
FullUrl ==
  <<"h", "t", "t", "p", "s", ":", "/", "/", "g", "i", "t", "h", "u", "b",
    ".", "c", "o", "m", "/", "o", "w", "n", "e", "r", "/", "n", "a", "m", "e">>

\* C7: a call whose repo has not exactly one '/' and does not hold the
\* host's name has ended with InvalidRepoFormat and no request issued;
\* "owner/name" and "https://github.com/owner/name" never end so.
RepoValidation ==
  /\ (repo # <<>> /\ ~ExactlyOneSlash(repo) /\ ~LooksLikeHostUrl(repo))
       => (pc = "up_done" /\ result = Err("InvalidRepoFormat") /\ NoRequestIssued)
  /\ repo \in {OwnerName, FullUrl} => result.err # "InvalidRepoFormat"
  /\ result.err = "InvalidRepoFormat" => (repo # <<>> /\ NoRequestIssued)

RepoValidationWitness ==
  /\ pc = "up_done"
  /\ repo = <<"n", "o", "t", "a", "s", "l", "a", "s", "h">>
  /\ result = Err("InvalidRepoFormat")

\* C8: no call ends abnormally; a call that cannot complete returns an error.
ErrorsAreValues == result.kind # "panic"

ChunkCount ==
  result.kind = "ok" =>
    /\ result.chunks = CeilDiv(Len(file_data) + StrLen(file_name) + 1, ChunkSize)
    /\ result.chunks >= 1

ChunkCountWitness ==
  /\ pc = "up_done" /\ result.kind = "ok" /\ AlreadyUploaded
  /\ file_name = <<>> /\ file_data = <<>> /\ result.chunks = 1

\* the release's upload URL template as the resolver normalized it; upload_file
\* binds it to assets_url (lib.rs:92, 217)
NormalizedUploadUrl == assets_url

\* C11: parse_url turns ".../assets{?name,label}" into ".../assets": the
\* placeholder is stripped from the path and the resulting URL has no query
\* component, not even an empty one.
NormalizedNoQuery ==
  NormalizedUploadUrl # NoUrl =>
    /\ NormalizedUploadUrl.path = <<Lit("/repos/o/r/releases/1/assets")>>
    /\ ~NormalizedUploadUrl.hasQuery
    /\ UrlString(NormalizedUploadUrl) =
         <<Lit("https://uploads.github.com"), Lit("/repos/o/r/releases/1/assets")>>

\* the sent requests' targets, by host and path
Endpoint(u) == <<u.host, u.path>>

\* C12: the listing request of the dedup check goes to the release's
\* assets_url, every chunk upload goes to the release's upload_url with the
\* query name={hash}-chunk{i}; the two are never interchanged.
EndpointRoles ==
  /\ listed # NoUrl =>
       Endpoint(listed) = Endpoint(UrlParse(AssetsUrlRaw))
  /\ \A i \in 1..Len(posts) :
       /\ posts[i].url.host = UrlParse(UploadUrlRaw).host
       /\ posts[i].url.query = <<Lit("name=")>> \o AssetName(Sha256(data), i - 1)

Failed(entry) == entry.resp \in {"err", "missing"}

\* C13: the resolver's requests are a lookup, then a creation, then a
\* bootstrap commit, in that order, and end at the first success: a creation
\* is requested only after a lookup that failed or held no endpoints, a
\* bootstrap only after the creation failed too, and nothing follows a lookup
\* or a creation that returned the endpoints.
PhaseOrder ==
  \A n \in 1..Len(rlog) :
    /\ n = 1 => rlog[n].req = "lookup"
    /\ rlog[n].req = "create" =>
         n = 2 /\ rlog[1].req = "lookup" /\ Failed(rlog[1])
    /\ rlog[n].req = "bootstrap" =>
         n = 3 /\ rlog[2].req = "create" /\ Failed(rlog[2])
    /\ (rlog[n].req = "lookup" /\ n > 1) =>
         n = 4 /\ rlog[3].req = "bootstrap"
    /\ ~Failed(rlog[n]) /\ rlog[n].req # "bootstrap" => n = Len(rlog)
    /\ rlog[n].resp = "ok" => pc = "list_assets"

PhaseOrderWitness ==
  /\ pc = "list_assets" /\ Len(rlog) = 4
  /\ rlog[2].req = "create" /\ rlog[3].req = "bootstrap" /\ rlog[4].resp = "ok"

\* a locator was returned by the upload path, not by the dedup check
ReturnedByUpload == pc = "up_done" /\ result.kind = "ok" /\ threads # <<>>

\* C14: when upload_file returns a locator through the upload path, the slot
\* of asset_url has been written exactly once before it is read, and holds
\* the normalized browser_download_url of the response to chunk 0's upload,
\* never another chunk's.
SlotWrittenOnce ==
  ReturnedByUpload =>
    /\ slot.init /\ slot.writes = 1
    /\ result.asset_url = slot.url
    /\ PostedName(posts[1]) = AssetName(Sha256(data), 0)
    /\ slot.url = parse_url(ResponseUrl(posts[1])).url
    /\ \A i \in 2..Len(posts) : slot.url # parse_url(ResponseUrl(posts[i])).url

SlotWrittenOnceWitness == ReturnedByUpload /\ Len(threads) = 2 /\ joined = 2

\* the payload as the claim words it: the name, a newline, the original bytes
NamePrefixedPayload == Utf8(file_name) \o <<10>> \o file_data

\* C15: on a dedup miss there is exactly one upload request per chunk index
\* 0..chunk_count-1 and no other, request i is named {hash}-chunk{i} with the
\* hash of the name-prefixed payload, and the bodies joined in index order are
\* the name, a newline and the original bytes.
ChunkPartition ==
  threads # <<>> =>
    /\ Len(posts) = CeilDiv(Len(NamePrefixedPayload), ChunkSize)
    /\ Len(threads) = Len(posts)
    /\ \A i \in Indices(posts) :
         PostedName(posts[i]) = AssetName(Sha256(NamePrefixedPayload), i - 1)
    /\ ConcatBodies(posts, Len(posts)) = NamePrefixedPayload

ChunkPartitionWitness ==
  /\ pc = "uploading" /\ Len(posts) = 2
  /\ file_name # <<>> /\ file_data # <<>>

\* the task of the i-th request has been started
Started(i) == i \in DOMAIN threads /\ threads[i] \in {"running"} \cup Outcomes

\* C16: every chunk's upload task is started before the result of any chunk's
\* upload is awaited: through the whole await loop every request's task is
\* already started, whatever became of the others, chunk 0 included.
AllStartedBeforeAwait ==
  pc = "uploading" => \A i \in Indices(posts) : Started(i)

\* chunk 1 has run to its end while chunk 0 is still in flight and nothing
\* has been awaited
AllStartedBeforeAwaitWitness ==
  /\ pc = "uploading" /\ joined = 0 /\ Len(posts) = 2
  /\ threads[1] = "running" /\ threads[2] \in Outcomes

\* C17: for a locator that upload_file returned, the request of get_file for
\* chunk i addresses the asset upload_file named {hash}-chunk{i}, for every
\* index of the locator; distinct indices address distinct assets.
ChunkAddressing ==
  pc = "fetching" =>
    \A n \in Indices(dthreads) :
      AddressedAsset(ChunkUrl(result.asset_url, n - 1)) = AssetName(Sha256(data), n - 1)

\* C18: whatever calls came before, failed ones with orphaned chunks
\* included, when upload_file returns a locator every asset {hash}-chunk{i},
\* i below the locator's chunk count, is in the remote store. Stated for the
\* calls in which every upload that was made was answered with success and
\* before which no call returned a locator, so that only failed calls came
\* before.
LocatorComplete ==
  (/\ pc = "up_done" /\ result.kind = "ok"
   /\ uploaded = {}
   /\ \A n \in Indices(threads) : threads[n] = "ok")
    => \A i \in 0..(result.chunks - 1) :
         \E a \in store : a.name = AssetName(Sha256(data), i)

====
